---- MODULE Spec2Model ----
(***************************************************************************)
(* LeanMinHash (datasketch/lean_minhash.py): the frozen sketch, its binary *)
(* codec built on struct.pack_into / struct.unpack_from, and the union.    *)
(*                                                                         *)
(* A hash value is kept as its 8 bytes, most significant first, so that    *)
(* 64-bit values, byte order and field width are all explicit.             *)
(***************************************************************************)
EXTENDS Integers, Sequences, FiniteSets, TLC

VARIABLES
    host,      \* sys.byteorder of the interpreter: "little" or "big"
    longSize,  \* sizeof(unsigned long) of the build: 8 (LP64) or 4 (LLP64)
    gen,       \* the MinHash the sketches are made from: seed, dtype, n_bytes, hashvalues (address)
    mem,       \* array storage: address -> sequence of hash values
    sk,        \* the LeanMinHash objects the callers hold
    buf,       \* the bytearray the callers hold
    res,       \* the last call: its arguments and what it returned or raised
    pc         \* position of each caller of the batch serialization

vars == <<host, longSize, gen, mem, sk, buf, res, pc>>

\* ------------------------------------------------------------------ bounds
MaxWidth == 2
MaxSeed == 2
MaxSketches == 2
MaxOffset == 3
NCallers == 2
Slack == 2

Precisions == {1, 2, 4, 8}
ByteOrders == {"<", ">", "@"}

\* the attribute was never set on the object (object.__new__ bypasses __init__)
NoAttr == 0

\* ------------------------------------------------------------------ values
\* bytearray(n)
Zeros(n) == [j \in 1..n |-> 0]

Reverse(s) == [j \in 1..Len(s) |-> s[Len(s) + 1 - j]]

\* the p-byte value whose low byte is lo and whose other p-1 bytes are hi
Val(hi, lo, p) == [j \in 1..8 |-> IF j = 8 THEN lo ELSE IF j > 8 - p THEN hi ELSE 0]

MaxHash(p) == Val(255, 255, p)

\* two values of p bytes that read differently in the two byte orders (p > 1),
\* one below 2^32 and one above it (p = 8)
SlotVals(p) == {Val(0, 255, p), Val(255, 0, p)}

\* v fits an unsigned field of k bytes
Fits(v, k) == \A j \in 1..(8 - k) : v[j] = 0

\* numeric order of two values
ValLeq(a, b) ==
    \/ a = b
    \/ \E j \in 1..8 : a[j] < b[j] /\ \A k \in 1..(j - 1) : a[k] = b[k]

ValMin(a, b) == IF ValLeq(a, b) THEN a ELSE b

\* ------------------------------------------------------------------ struct
\* np.dtype("u<n>").char
DtypeChar(n) ==
    CASE n = 1 -> "B"
      [] n = 2 -> "H"
      [] n = 4 -> IF longSize = 4 THEN "L" ELSE "I"
      [] n = 8 -> IF longSize = 8 THEN "L" ELSE "Q"

\* struct.calcsize(byteorder + c): native sizes for "@", standard sizes otherwise
CalcSize(byteorder, c) ==
    CASE c = "B" -> 1
      [] c = "H" -> 2
      [] c = "I" -> 4
      [] c = "i" -> 4
      [] c = "L" -> IF byteorder = "@" THEN longSize ELSE 4
      [] c = "Q" -> 8

\* the byte order struct uses for a byte order character
Order(byteorder) ==
    IF byteorder = "@" THEN host ELSE IF byteorder = "<" THEN "little" ELSE "big"

\* offset of the first hash value in "HBB<n><c>": "@" aligns it to its size
BodyStart(byteorder, c) ==
    LET sz == CalcSize(byteorder, c)
    IN  IF byteorder = "@" THEN ((4 + sz - 1) \div sz) * sz ELSE 4

\* struct.calcsize(f"{byteorder}HBB{n}{c}")
FmtSize(byteorder, n, c) == BodyStart(byteorder, c) + n * CalcSize(byteorder, c)

FieldBytes(v, k, order) ==
    LET be == SubSeq(v, 9 - k, 8) IN IF order = "big" THEN be ELSE Reverse(be)

IntBytes(x, k, order) ==
    LET be == IF k = 1 THEN <<x>> ELSE <<x \div 256, x % 256>>
    IN  IF order = "big" THEN be ELSE Reverse(be)

BytesInt(b, order) ==
    LET be == IF order = "big" THEN b ELSE Reverse(b)
    IN  IF Len(be) = 1 THEN be[1] ELSE be[1] * 256 + be[2]

BytesField(b, order) ==
    LET be == IF order = "big" THEN b ELSE Reverse(b)
    IN  Zeros(8 - Len(be)) \o be

\* struct.pack_into(f"{byteorder}HBB{n}{c}", b, offset, n, seed, itemsize, *hv):
\* the size check comes first and writes nothing; then the range is zeroed and
\* the fields are written in order until one does not fit its format
PackInto(byteorder, c, b, offset, n, seed, itemsize, hv) ==
    LET sz == CalcSize(byteorder, c)
        start == BodyStart(byteorder, c)
        total == FmtSize(byteorder, n, c)
        order == Order(byteorder)
        nOK == n \in 0..65535
        seedOK == nOK /\ seed \in 0..255
        hdrOK == seedOK /\ itemsize \in 0..255
        written == IF hdrOK
                   THEN Cardinality({k \in 1..n : \A j \in 1..k : Fits(hv[j], sz)})
                   ELSE 0
        hdr == (IF nOK THEN IntBytes(n, 2, order) ELSE Zeros(2))
               \o (IF seedOK THEN <<seed>> ELSE <<0>>)
               \o (IF hdrOK THEN <<itemsize>> ELSE <<0>>)
        body == [j \in 1..(n * sz) |->
                    LET k == ((j - 1) \div sz) + 1
                        at == ((j - 1) % sz) + 1
                    IN  IF k <= written THEN FieldBytes(hv[k], sz, order)[at] ELSE 0]
        range == hdr \o Zeros(start - 4) \o body
    IN  IF Len(b) - offset < total
        THEN [status |-> "struct.error", buf |-> b]
        ELSE [status |-> IF hdrOK /\ written = n THEN "ok" ELSE "struct.error",
              buf |-> [j \in 1..Len(b) |->
                          IF j > offset /\ j <= offset + total THEN range[j - offset] ELSE b[j]]]

\* struct.unpack_from(f"{byteorder}{n}{c}", b, offset) with a standard byte order
UnpackFrom(order, n, sz, b, offset) ==
    IF Len(b) - offset < n * sz
    THEN [status |-> "struct.error", values |-> <<>>]
    ELSE [status |-> "ok",
          values |-> [k \in 1..n |->
                         BytesField(SubSeq(b, offset + (k - 1) * sz + 1, offset + k * sz), order)]]

\* ------------------------------------------------------------------ objects
\* Every method takes the heap m it runs on (address -> array).

\* Python values passed to _initialize_slots
PyInt(x) == [t |-> "int", v |-> x]
PyStr(x) == [t |-> "str", v |-> x]
PyArr(x) == [t |-> "arr", v |-> x]

\* LeanMinHash.__slots__
Slots == <<"seed", "hashvalues">>

\* object.__new__(LeanMinHash): no attribute is set yet
NewObject == [seed |-> NoAttr, hashvalues |-> NoAttr, dtype |-> NoAttr, n_bytes |-> NoAttr]

\* MinHash._parse_hashvalues: a fresh array of unsigned integers holding the given values
ParseHashvalues(hashvalues) ==
    IF hashvalues.t = "arr"
    THEN [status |-> "ok", arr |-> hashvalues.v]
    ELSE [status |-> "ValueError", arr |-> <<>>]

\* MinHash.__len__
PyLen(m, self) == Len(m[self.hashvalues])

\* the object after _initialize_slots(seed, hashvalues), and the array it now owns
\* (stored at the next free address of m)
InitializeSlots(m, self, seed, hashvalues) ==
    LET parsed == ParseHashvalues(hashvalues)
    IN  IF parsed.status = "ok"
        THEN [status |-> "ok", msg |-> "",
              obj |-> [self EXCEPT !.seed = seed.v, !.hashvalues = Len(m) + 1],
              arr |-> parsed.arr]
        ELSE [status |-> parsed.status, msg |-> "", obj |-> self, arr |-> <<>>]

\* LeanMinHash(minhash)
Construct(m, minhash) ==
    InitializeSlots(m, [NewObject EXCEPT !.dtype = minhash.dtype, !.n_bytes = minhash.n_bytes],
                    PyInt(minhash.seed), PyArr(m[minhash.hashvalues]))

\* an update that goes through to MinHash.update instead of raising
UpdateApplied(m, self, b) ==
    [status |-> "ok", msg |-> "",
     obj |-> self, arr |-> [j \in 1..Len(m[self.hashvalues]) |-> ValMin(m[self.hashvalues][j], b)]]

\* update(b): always raises; the object and its array are returned as it leaves them
Update(m, self, b) ==
    [status |-> "TypeError", msg |-> "Cannot update a LeanMinHash",
     obj |-> self, arr |-> m[self.hashvalues]]

\* copy()
Copy(m, self) == InitializeSlots(m, NewObject, PyStr(Slots[1]), PyStr(Slots[2]))

\* bytesize(byteorder)
Bytesize(m, self, byteorder) ==
    IF self.dtype = NoAttr
    THEN [status |-> "AttributeError", n |-> 0]
    ELSE LET seed_size == CalcSize(byteorder, "B")
             length_size == CalcSize(byteorder, "i")
             n_byte_size == CalcSize(byteorder, "B")
             hashvalue_size == CalcSize(byteorder, DtypeChar(self.dtype))
         IN  [status |-> "ok",
              n |-> seed_size + length_size + n_byte_size + PyLen(m, self) * hashvalue_size]

\* the check that opens serialize (buf is a bytearray, never an io.BufferedWriter)
SerializeCheck(m, self, b) ==
    LET size == Bytesize(m, self, "@")
    IN  IF size.status # "ok" THEN size.status
        ELSE IF Len(b) < size.n THEN "ValueError"
        ELSE "ok"

\* the struct.pack_into call that ends serialize
SerializePack(m, self, b, byteorder, offset) ==
    IF self.dtype = NoAttr
    THEN [status |-> "AttributeError", buf |-> b]
    ELSE PackInto(byteorder, DtypeChar(self.dtype), b, offset,
                  PyLen(m, self), self.seed, self.dtype, m[self.hashvalues])

\* serialize(buf, byteorder, offset) on a bytearray b
Serialize(m, self, b, byteorder, offset) ==
    LET check == SerializeCheck(m, self, b)
    IN  IF check # "ok"
        THEN [status |-> check, buf |-> b]
        ELSE SerializePack(m, self, b, byteorder, offset)

\* deserialize(buf, byteorder)
Deserialize(m, b, byteorder) ==
    LET order == host
        failed(e) == [status |-> e, msg |-> "", obj |-> NewObject, arr |-> <<>>]
    IN  IF Len(b) < 4 THEN failed("struct.error")
        ELSE
        LET num_perm == BytesInt(SubSeq(b, 1, 2), order)
            seed == b[3]
            n_bytes == b[4]
        IN  IF n_bytes \notin Precisions THEN failed("TypeError")
            ELSE
            LET hashvalues == UnpackFrom(order, num_perm, CalcSize("<", DtypeChar(n_bytes)), b, 4)
            IN  IF hashvalues.status # "ok" THEN failed(hashvalues.status)
                ELSE InitializeSlots(m, [NewObject EXCEPT !.dtype = n_bytes, !.n_bytes = n_bytes],
                                     PyInt(seed), PyArr(hashvalues.values))

\* __hash__: the tuple (seed, tuple(hashvalues)) that is hashed
Hash(m, self) == <<self.seed, m[self.hashvalues]>>

\* a reduction that keeps the elementwise maximum
MaximumReduce(arrays) ==
    [j \in 1..Len(arrays[1]) |->
        CHOOSE v \in {arrays[k][j] : k \in 1..Len(arrays)} :
            \A k \in 1..Len(arrays) : ValLeq(arrays[k][j], v)]

\* a reduction that stops after the first two arrays
MinimumOfFirstTwo(arrays) ==
    [j \in 1..Len(arrays[1]) |-> ValMin(arrays[1][j], arrays[2][j])]

\* np.minimum.reduce over arrays of one length
MinimumReduce(arrays) ==
    [j \in 1..Len(arrays[1]) |->
        CHOOSE v \in {arrays[k][j] : k \in 1..Len(arrays)} :
            \A k \in 1..Len(arrays) : ValLeq(v, arrays[k][j])]

\* a union whose input count check lets a single sketch through
UnionOfOne(m, lmhs) ==
    LET failed(e) == [status |-> "ValueError", msg |-> e, obj |-> NewObject, arr |-> <<>>]
    IN  IF Len(lmhs) < 1 THEN failed("Cannot union less than 2 MinHash")
        ELSE
        LET num_perm == PyLen(m, lmhs[1])
            seed == lmhs[1].seed
        IN  IF \E k \in 1..Len(lmhs) : seed # lmhs[k].seed \/ num_perm # PyLen(m, lmhs[k])
            THEN failed("The unioning MinHash must have the same seed, number of permutation functions and hashobj")
            ELSE InitializeSlots(m, NewObject, PyInt(seed),
                                 PyArr(MinimumReduce([k \in 1..Len(lmhs) |-> m[lmhs[k].hashvalues]])))

\* union(*lmhs)
Union(m, lmhs) ==
    LET failed(e) == [status |-> "ValueError", msg |-> e, obj |-> NewObject, arr |-> <<>>]
    IN  IF Len(lmhs) < 2 THEN failed("Cannot union less than 2 MinHash")
        ELSE
        LET num_perm == PyLen(m, lmhs[1])
            seed == lmhs[1].seed
        IN  IF \E k \in 1..Len(lmhs) : seed # lmhs[k].seed \/ num_perm # PyLen(m, lmhs[k])
            THEN failed("The unioning MinHash must have the same seed, number of permutation functions and hashobj")
            ELSE InitializeSlots(m, NewObject, PyInt(seed),
                                 PyArr(MinimumReduce([k \in 1..Len(lmhs) |-> m[lmhs[k].hashvalues]])))

\* ------------------------------------------------------------------ state
Seeds == 1..MaxSeed

Arrays(vals, w) == [1..w -> vals]

\* a MinHash(seed, n_bytes = p) holding its array at address 1
Generator(seed, p) == [seed |-> seed, dtype |-> p, n_bytes |-> p, hashvalues |-> 1]

NoCall == [op |-> "none", status |-> "ok"]

\* the state after MinHash(seed, num_perm, n_bytes): every slot holds the maximum hash
Init ==
    /\ host \in {"little", "big"}
    /\ longSize \in {4, 8}
    /\ \E p \in Precisions, w \in 1..MaxWidth :
          /\ gen = Generator(MaxSeed, p)
          /\ mem = <<[j \in 1..w |-> MaxHash(p)]>>
    /\ sk = <<>>
    /\ buf = <<>>
    /\ res = NoCall
    /\ pc = <<>>

\* ------------------------------------------------------------------ actions
\* A call that returns an object takes keep: whether the caller holds on to the
\* object (it then enters sk and its array enters mem) or drops it at once.
\* The outcome r of a call is bound once, by \E r \in {call}.

Returned(r, keep) ==
    /\ keep => Len(sk) < MaxSketches
    /\ IF keep /\ r.status = "ok"
       THEN sk' = Append(sk, r.obj) /\ mem' = Append(mem, r.arr)
       ELSE UNCHANGED <<sk, mem>>

\* MinHash.update on the generator: each slot becomes the minimum of itself and a new hash
GenUpdateOp(new) ==
    /\ mem' = [mem EXCEPT ![gen.hashvalues] =
                  [j \in 1..Len(mem[gen.hashvalues]) |-> ValMin(mem[gen.hashvalues][j], new[j])]]
    /\ res' = [op |-> "gen_update", status |-> "ok"]
    /\ UNCHANGED <<host, longSize, gen, sk, buf, pc>>

\* lmh = LeanMinHash(minhash)
SnapshotOp(keep) ==
    /\ \E r \in {Construct(mem, gen)} :
           /\ Returned(r, keep)
           /\ res' = [op |-> "snapshot", status |-> r.status, obj |-> r.obj, arr |-> r.arr]
    /\ UNCHANGED <<host, longSize, gen, buf, pc>>

\* lmh.update(b)
UpdateOp(i, b) ==
    /\ \E r \in {Update(mem, sk[i], b)} :
           /\ sk' = [sk EXCEPT ![i] = r.obj]
           /\ mem' = [mem EXCEPT ![sk[i].hashvalues] = r.arr]
           /\ res' = [op |-> "update", status |-> r.status, i |-> i]
    /\ UNCHANGED <<host, longSize, gen, buf, pc>>

\* lmh.copy()
CopyOp(i, keep) ==
    /\ \E r \in {Copy(mem, sk[i])} :
           /\ Returned(r, keep)
           /\ res' = [op |-> "copy", status |-> r.status, i |-> i, obj |-> r.obj, arr |-> r.arr]
    /\ UNCHANGED <<host, longSize, gen, buf, pc>>

\* hash(lmh)
HashOp(i) ==
    /\ res' = [op |-> "hash", status |-> "ok", i |-> i, value |-> Hash(mem, sk[i])]
    /\ UNCHANGED <<host, longSize, gen, mem, sk, buf, pc>>

\* lmh.bytesize(byteorder)
BytesizeOp(i, byteorder) ==
    /\ \E r \in {Bytesize(mem, sk[i], byteorder)} :
           res' = [op |-> "bytesize", status |-> r.status, i |-> i,
                   byteorder |-> byteorder, n |-> r.n]
    /\ UNCHANGED <<host, longSize, gen, mem, sk, buf, pc>>

\* b = bytearray(n); lmh.serialize(b, byteorder, offset); the caller holds on to b or drops it
SerializeOp(i, byteorder, offset, n, keep) ==
    /\ \E r \in {Serialize(mem, sk[i], Zeros(n), byteorder, offset)} :
           /\ buf' = IF keep THEN r.buf ELSE buf
           /\ res' = [op |-> "serialize", status |-> r.status, i |-> i, byteorder |-> byteorder,
                      offset |-> offset, before |-> Zeros(n), after |-> r.buf]
    /\ UNCHANGED <<host, longSize, gen, mem, sk, pc>>

\* lmh = LeanMinHash.deserialize(buf, byteorder)
DeserializeOp(byteorder, keep) ==
    /\ \E r \in {Deserialize(mem, buf, byteorder)} :
           /\ Returned(r, keep)
           /\ res' = [op |-> "deserialize", status |-> r.status, byteorder |-> byteorder,
                      obj |-> r.obj, arr |-> r.arr]
    /\ UNCHANGED <<host, longSize, gen, buf, pc>>

\* lmh = LeanMinHash.union(*[sk[i] for i in args])
UnionOp(args, keep) ==
    /\ \E r \in {Union(mem, [k \in 1..Len(args) |-> sk[args[k]]])} :
           /\ Returned(r, keep)
           /\ res' = [op |-> "union", status |-> r.status, msg |-> r.msg, args |-> args,
                      obj |-> r.obj, arr |-> r.arr]
    /\ UNCHANGED <<host, longSize, gen, buf, pc>>

\* argument lists of at most n of the sketches held
ArgLists(n) == UNION {[1..k -> 1..Len(sk)] : k \in 0..n}

\* the new hashes one generator update brings: one value for every slot
GenInputs == {[j \in 1..Len(mem[1]) |-> v] : v \in SlotVals(gen.dtype)}

\* the length bytearray(lmh.bytesize()) has, 0 when bytesize raises
OwnSize(i) == Bytesize(mem, sk[i], "@").n

Next ==
    \/ \E new \in GenInputs : GenUpdateOp(new)
    \/ \E keep \in BOOLEAN : SnapshotOp(keep)
    \/ \E i \in 1..Len(sk), b \in SlotVals(1) : UpdateOp(i, b)
    \/ \E i \in 1..Len(sk), keep \in BOOLEAN : CopyOp(i, keep)
    \/ \E i \in 1..Len(sk) : HashOp(i)
    \/ \E i \in 1..Len(sk), byteorder \in ByteOrders : BytesizeOp(i, byteorder)
    \/ \E i \in 1..Len(sk), byteorder \in ByteOrders : SerializeOp(i, byteorder, 0, OwnSize(i), FALSE)
    \/ \E args \in ArgLists(2), keep \in BOOLEAN : UnionOp(args, keep)

Spec == Init /\ [][Next]_vars

\* ------------------------------------------------------------------ frozen sketch
\* what a caller can read of each sketch held: its attributes and its slots
SketchFields ==
    [i \in 1..Len(sk) |-> [seed |-> sk[i].seed, dtype |-> sk[i].dtype,
                           n_bytes |-> sk[i].n_bytes, slots |-> mem[sk[i].hashvalues]]]

\* C8: no step changes the seed, precision or slots of a sketch already held
\* (update, bytesize, serialize, copy, union, hashing, an update of the generator it
\* was made from), and every update attempt on a sketch raises.
C8_Immutable ==
    [][/\ \A i \in 1..Len(sk) : SketchFields'[i] = SketchFields[i]
       /\ res'.op = "update" => res'.status = "TypeError"]_vars

\* an update was attempted on a sketch whose generator has moved on since the snapshot
C8_Witness ==
    /\ res.op = "update"
    /\ res.status = "TypeError"
    /\ sk[res.i].dtype # NoAttr
    /\ mem[sk[res.i].hashvalues] # mem[gen.hashvalues]

\* C6: a.copy() returns a sketch with the seed, precision and slots of a, in storage of its own
C6_CopyEquals ==
    res.op = "copy" =>
        /\ res.status = "ok"
        /\ res.obj.seed = sk[res.i].seed
        /\ res.obj.dtype = sk[res.i].dtype
        /\ res.arr = mem[sk[res.i].hashvalues]
        /\ res.obj.hashvalues # sk[res.i].hashvalues

\* ------------------------------------------------------------------ codec
\* a valid sketch: seed in 0..255, width > 0, precision in {1,2,4,8}, every slot fits
Valid(m, s) ==
    /\ s.seed \in 0..255
    /\ s.dtype \in Precisions
    /\ Len(m[s.hashvalues]) > 0
    /\ \A j \in 1..Len(m[s.hashvalues]) : Fits(m[s.hashvalues][j], s.dtype)

\* the wire layout of the format table: width (2), seed (1), precision (1), the slots
Layout(m, s, order) ==
    LET RECURSIVE slots(_)
        slots(j) == IF j > Len(m[s.hashvalues]) THEN <<>>
                    ELSE FieldBytes(m[s.hashvalues][j], s.dtype, order) \o slots(j + 1)
    IN  IntBytes(Len(m[s.hashvalues]), 2, order) \o <<s.seed, s.dtype>> \o slots(1)

\* 2 + 1 + 1 + width * precision
ByteSize(m, s) == 2 + 1 + 1 + Len(m[s.hashvalues]) * s.dtype

\* one sketch, snapshotted from a generator that has seen some updates
InitCodec ==
    /\ host \in {"little", "big"}
    /\ longSize \in {4, 8}
    /\ \E p \in Precisions, w \in 1..MaxWidth :
        \E a \in Arrays(SlotVals(p), w) :
          LET r == Construct(<<a>>, Generator(MaxSeed, p))
          IN  /\ gen = Generator(MaxSeed, p)
              /\ mem = <<a, r.arr>>
              /\ sk = <<r.obj>>
    /\ buf = <<>>
    /\ res = NoCall
    /\ pc = <<>>

\* buffer lengths around bytearray(lmh.bytesize())
BufLens(i) == {n \in (OwnSize(i) - Slack)..(OwnSize(i) + Slack) : n >= 0}

NextCodec ==
    \/ \E byteorder \in ByteOrders : BytesizeOp(1, byteorder)
    \/ \E byteorder \in ByteOrders, offset \in 0..MaxOffset, n \in BufLens(1) :
          SerializeOp(1, byteorder, offset, n, TRUE)
    \/ \E byteorder \in ByteOrders : DeserializeOp(byteorder, FALSE)

SpecCodec == InitCodec /\ [][NextCodec]_vars

\* C1: a buffer that holds what serialize wrote for a valid sketch in byte order b
\* (little or big) deserializes, with the same b, to the seed and slots of the sketch.
C1_RoundTrip ==
    \A i \in 1..Len(sk), b \in {"<", ">"} :
        ( /\ res.op = "deserialize"
          /\ res.byteorder = b
          /\ Valid(mem, sk[i])
          /\ Serialize(mem, sk[i], Zeros(Len(buf)), b, 0) = [status |-> "ok", buf |-> buf] )
        => /\ res.status = "ok"
           /\ res.obj.seed = sk[i].seed
           /\ res.arr = mem[sk[i].hashvalues]

\* C2: bytesize returns 2 + 1 + 1 + width * precision, which is the number of bytes
\* serialize writes for that byte order.
C2_SizeAccuracy ==
    (res.op = "bytesize" /\ Valid(mem, sk[res.i])) =>
        /\ res.status = "ok"
        /\ res.n = ByteSize(mem, sk[res.i])
        /\ res.n = FmtSize(res.byteorder, Len(mem[sk[res.i].hashvalues]), DtypeChar(sk[res.i].dtype))

\* C5: serialize raises the buffer-too-small error (ValueError) exactly when
\* len(buf) - offset < byte_size; a failure leaves the buffer as it was; with room
\* it succeeds and the sketch is written at offset.
C5_BoundsCheck ==
    (res.op = "serialize" /\ Valid(mem, sk[res.i])) =>
        LET room == Len(res.before) - res.offset
            need == ByteSize(mem, sk[res.i])
        IN  /\ (res.status = "ValueError") <=> (room < need)
            /\ res.status # "ok" => res.after = res.before
            /\ room >= need =>
                  /\ res.status = "ok"
                  /\ SubSeq(res.after, res.offset + 1, res.offset + need)
                        = Layout(mem, sk[res.i], Order(res.byteorder))

\* ------------------------------------------------------------------ creation paths
NextCreate ==
    \/ \E new \in GenInputs : GenUpdateOp(new)
    \/ \E keep \in BOOLEAN : SnapshotOp(keep)
    \/ \E i \in 1..Len(sk), keep \in BOOLEAN : CopyOp(i, keep)
    \/ \E i \in 1..Len(sk), byteorder \in ByteOrders : SerializeOp(i, byteorder, 0, OwnSize(i), TRUE)
    \/ \E byteorder \in ByteOrders, keep \in BOOLEAN : DeserializeOp(byteorder, keep)
    \/ \E args \in ArgLists(2), keep \in BOOLEAN : UnionOp(args, keep)

SpecCreate == Init /\ [][NextCreate]_vars

\* the sketch has a precision in {1,2,4,8}, every slot fits it, and bytesize applies
WellFormed(m, s) ==
    /\ s.dtype \in Precisions
    /\ \A j \in 1..Len(m[s.hashvalues]) : Fits(m[s.hashvalues][j], s.dtype)
    /\ Bytesize(m, s, "@").status = "ok"

\* C9: every sketch a creation path returned (snapshot, deserialize, copy, union) has a
\* defined precision in {1,2,4,8} and slots that fit it, so bytesize and serialize apply.
C9_WellFormed ==
    /\ \A i \in 1..Len(sk) : WellFormed(mem, sk[i])
    /\ (res.op \in {"snapshot", "deserialize", "copy", "union"} /\ res.status = "ok")
          => WellFormed(Append(mem, res.arr), res.obj)

\* ------------------------------------------------------------------ union
\* lmh = LeanMinHash.union(LeanMinHash.union(*inner), *rest): the inner result is the
\* first argument of the outer call
NestedUnionOp(inner, rest) ==
    /\ \E r1 \in {Union(mem, [k \in 1..Len(inner) |-> sk[inner[k]]])} :
        \E r \in {IF r1.status = "ok"
                  THEN Union(Append(mem, r1.arr), <<r1.obj>> \o [k \in 1..Len(rest) |-> sk[rest[k]]])
                  ELSE r1} :
           res' = [op |-> "nested_union", status |-> r.status, msg |-> r.msg,
                   inner |-> inner, rest |-> rest, obj |-> r.obj, arr |-> r.arr]
    /\ UNCHANGED <<host, longSize, gen, mem, sk, buf, pc>>

\* Three sketches A, B, C snapshotted from generators of 8-byte hashes: B has the seed
\* and width of A, or differs in seed or width; C has the seed and width of A and one
\* value in every slot.  (union reads neither dtype nor the byte order nor the C types
\* of the build.)
InitUnion ==
    /\ host = "little"
    /\ longSize = 8
    /\ \E p \in {8}, w \in 1..MaxWidth, seedB \in Seeds, wB \in 1..MaxWidth :
        \E a \in Arrays(SlotVals(p), w), b \in Arrays(SlotVals(p), wB), v \in SlotVals(p) :
          /\ (seedB # 1 \/ wB # w) => b = [j \in 1..wB |-> Val(0, 255, p)]
          /\ gen = Generator(1, p)
          /\ mem = <<a, a, b, [j \in 1..w |-> v]>>
          /\ sk = << [seed |-> 1, hashvalues |-> 2, dtype |-> p, n_bytes |-> p],
                     [seed |-> seedB, hashvalues |-> 3, dtype |-> p, n_bytes |-> p],
                     [seed |-> 1, hashvalues |-> 4, dtype |-> p, n_bytes |-> p] >>
    /\ buf = <<>>
    /\ res = NoCall
    /\ pc = <<>>

\* argument lists of exactly n of the sketches held
Lists(n) == [1..n -> 1..Len(sk)]

NextUnion ==
    \/ \E args \in ArgLists(3) : UnionOp(args, FALSE)
    \/ \E inner \in Lists(2), rest \in Lists(1) : NestedUnionOp(inner, rest)

SpecUnion == InitUnion /\ [][NextUnion]_vars

\* the sketches an argument list names
Objs(args) == [k \in 1..Len(args) |-> sk[args[k]]]

\* every sketch of the list has the seed and the width of the first
Compatible(args) ==
    \A k \in 1..Len(args) :
        /\ sk[args[k]].seed = sk[args[1]].seed
        /\ Len(mem[sk[args[k]].hashvalues]) = Len(mem[sk[args[1]].hashvalues])

\* v is the least of the values the sketches of the list hold in slot j
IsMinOfSlot(v, args, j) ==
    /\ \E k \in 1..Len(args) : v = mem[sk[args[k]].hashvalues][j]
    /\ \A k \in 1..Len(args) : ValLeq(v, mem[sk[args[k]].hashvalues][j])

\* C3: the union of two or more sketches of one seed and width is a sketch of that seed
\* and width whose slot j is the minimum of slot j over the inputs.
C3_MergeCorrect ==
    (res.op = "union" /\ Len(res.args) >= 2 /\ Compatible(res.args)) =>
        /\ res.status = "ok"
        /\ res.obj.seed = sk[res.args[1]].seed
        /\ Len(res.arr) = Len(mem[sk[res.args[1]].hashvalues])
        /\ \A j \in 1..Len(res.arr) : IsMinOfSlot(res.arr[j], res.args, j)

\* a union whose result differs from each of its three inputs
C3_Witness ==
    /\ res.op = "union"
    /\ res.status = "ok"
    /\ Len(res.args) = 3
    /\ \A k \in 1..3 : res.arr # mem[sk[res.args[k]].hashvalues]

\* the kind of an error is the exception class raised
InsufficientKind == Union(mem, <<>>).status

Rejected == res.status # "ok" /\ res.obj = NewObject /\ res.arr = <<>>

Perms(n) == {f \in [1..n -> 1..n] : \A x, y \in 1..n : x # y => f[x] # f[y]}

SameSketch(r1, r2) ==
    r1.status = "ok" /\ r2.status = "ok" /\ r1.obj.seed = r2.obj.seed /\ r1.arr = r2.arr

\* C7: the union of compatible sketches does not depend on the order of its arguments,
\* and union(union(A, B), C) is accepted and equals union(A, B, C).
C7_CommutesAssociates ==
    /\ (res.op = "union" /\ Len(res.args) >= 2 /\ Compatible(res.args)) =>
          \A f \in Perms(Len(res.args)) :
              SameSketch(res, Union(mem, Objs([k \in 1..Len(res.args) |-> res.args[f[k]]])))
    /\ (res.op = "nested_union" /\ Len(res.inner) = 2 /\ Len(res.rest) = 1
            /\ Compatible(res.inner \o res.rest)) =>
          SameSketch(res, Union(mem, Objs(res.inner \o res.rest)))

\* a nested union of three sketches whose inner result differs from the final one
C7_Witness ==
    /\ res.op = "nested_union"
    /\ res.status = "ok"
    /\ Len(res.inner) = 2 /\ Len(res.rest) = 1
    /\ res.arr # Union(mem, Objs(res.inner)).arr
    /\ res.arr # mem[sk[res.rest[1]].hashvalues]

\* ------------------------------------------------------------------ batch serialization
\* size = lmhs[0].bytesize(); buf = bytearray(size * len(lmhs)); caller k runs
\* lmhs[k].serialize(buf, byteorder, k * size) on the shared buf.  Each caller is at
\* "check" (before the length check), at "pack" (before struct.pack_into), at "done",
\* or at the error it raised.

BatchOffset(k) == (k - 1) * res.size

InitBatch ==
    /\ host \in {"little", "big"}
    /\ longSize \in {4, 8}
    /\ \E p \in Precisions, w \in 1..MaxWidth, byteorder \in ByteOrders :
        \E a \in [1..NCallers -> Arrays(SlotVals(p), w)] :
          LET m0 == <<a[1]>> \o a
              lmhs == [k \in 1..NCallers |->
                          [seed |-> MaxSeed, hashvalues |-> k + 1, dtype |-> p, n_bytes |-> p]]
              size == Bytesize(m0, lmhs[1], "@").n
          IN  /\ gen = Generator(MaxSeed, p)
              /\ mem = m0
              /\ sk = lmhs
              /\ buf = Zeros(size * NCallers)
              /\ res = [op |-> "batch", status |-> "ok", byteorder |-> byteorder,
                        size |-> size, k |-> 0, before |-> Zeros(size * NCallers)]
    /\ pc = [k \in 1..NCallers |-> "check"]

\* caller k evaluates the length check of serialize
BatchCheck(k) ==
    /\ pc[k] = "check"
    /\ LET check == SerializeCheck(mem, sk[k], buf)
       IN  pc' = [pc EXCEPT ![k] = IF check = "ok" THEN "pack" ELSE check]
    /\ UNCHANGED <<host, longSize, gen, mem, sk, buf, res>>

\* caller k runs struct.pack_into at its offset
BatchPack(k) ==
    /\ pc[k] = "pack"
    /\ \E r \in {SerializePack(mem, sk[k], buf, res.byteorder, BatchOffset(k))} :
           /\ buf' = r.buf
           /\ pc' = [pc EXCEPT ![k] = IF r.status = "ok" THEN "done" ELSE r.status]
           /\ res' = [res EXCEPT !.k = k, !.before = buf]
    /\ UNCHANGED <<host, longSize, gen, mem, sk>>

NextBatch ==
    \/ \E k \in 1..NCallers : BatchCheck(k)
    \/ \E k \in 1..NCallers : BatchPack(k)

SpecBatch == InitBatch /\ [][NextBatch]_vars

\* C10: a successful serialize at offset changes no byte outside
\* [offset, offset + byte_size); so when every caller has returned, every call has
\* succeeded and range k of the buffer holds what serializing sketch k alone gives.
C10_DisjointRanges ==
    /\ (res.k > 0 /\ pc[res.k] = "done") =>
          \A j \in 1..Len(buf) :
              (j <= BatchOffset(res.k) \/ j > BatchOffset(res.k) + res.size)
                  => buf[j] = res.before[j]
    /\ (\A k \in 1..NCallers : pc[k] \notin {"check", "pack"}) =>
          \A k \in 1..NCallers :
              /\ pc[k] = "done"
              /\ SubSeq(buf, BatchOffset(k) + 1, BatchOffset(k) + res.size)
                    = Serialize(mem, sk[k], Zeros(res.size), res.byteorder, 0).buf

====
